---- MODULE Spec2Model ----
(***************************************************************************)
(* The view layer of Notion (crates/notion-core/src/style.rs): error       *)
(* reporting to stderr and construction of progress bars and spinners.     *)
(*                                                                         *)
(* The caller is one thread that makes one call at a time.  A call is one  *)
(* atomic action; what it wrote to stderr, which environment variables it  *)
(* read and the handle it returned stay in the state until the caller      *)
(* moves on (Return, DropHandle), so that they can be inspected.           *)
(***************************************************************************)
EXTENDS Integers, Sequences, FiniteSets, TLC

VARIABLES
    env,        \* the process environment: variable name -> value or unset
    pc,         \* "idle" | "returned" | "panicked"
    op,         \* the function the caller called last ("none" when idle)
    arg,        \* the arguments of that call (and what the terminal answered)
    written,    \* what that call wrote to stderr, a sequence of fragments
    envReads,   \* the environment variables that call read
    bar,        \* the ProgressBar returned by progress_bar
    spinner,    \* the ProgressBar returned by progress_spinner
    prevDev     \* history: the branch the call just before this one took, "ok" (details)
                \* or "err" (user message) when it was a display_unknown_error, else "none"

vars == <<env, pc, op, arg, written, envReads, bar, spinner, prevDev>>

----------------------------------------------------------------------------
(* Bounds of the model *)

MaxTermWidth == 64      \* terminal widths 0..MaxTermWidth (and "no terminal")
MaxDetailsChars == 7    \* characters of a details string
MaxDetailsBytes == 9    \* UTF-8 bytes of a details string
SpinnerFrames == 4      \* frames of the spinner animation

----------------------------------------------------------------------------
(* Styled text.  A fragment is a piece of text with the console::style     *)
(* attributes it was written with; whether the attributes become ANSI       *)
(* codes is console's decision and is not modelled.                         *)

Plain(s) == [text |-> s, style |-> {}]
Styled(s, attrs) == [text |-> s, style |-> attrs]

RECURSIVE Text(_)
\* the text of a sequence of fragments, styling ignored
Text(frags) == IF frags = <<>> THEN "" ELSE Head(frags).text \o Text(Tail(frags))

\* eprint!(...) writes its fragments, eprintln!(...) the fragments and a newline
Eprint(frags) == frags
Eprintln(frags) == frags \o <<Plain("\n")>>

----------------------------------------------------------------------------
(* The process environment and env::var *)

EnvNames == {"NOTION_DEV", "RUST_BACKTRACE"}

Unset == [set |-> FALSE, unicode |-> TRUE, s |-> ""]
UnicodeValue(s) == [set |-> TRUE, unicode |-> TRUE, s |-> s]
\* a value that is not valid Unicode (an OsString env::var cannot return)
NonUnicodeValue == [set |-> TRUE, unicode |-> FALSE, s |-> "<ff>"]
EnvValues == {UnicodeValue(""), UnicodeValue("0"), UnicodeValue("1"), NonUnicodeValue}

\* std::env::var: Ok(value) when the variable is set and valid Unicode,
\* Err(NotPresent) when it is unset, Err(NotUnicode) otherwise
EnvVar(e, name) ==
    IF ~e[name].set THEN [ok |-> FALSE, val |-> "NotPresent"]
    ELSE IF ~e[name].unicode THEN [ok |-> FALSE, val |-> "NotUnicode"]
    ELSE [ok |-> TRUE, val |-> e[name].s]

IsOk(result) == result.ok

----------------------------------------------------------------------------
(* Arguments *)

Contexts == {"Notion", "Shim"}
Messages == {"x", "", "no such version"}

NoBacktrace == [some |-> FALSE, repr |-> ""]
SomeBacktrace == [some |-> TRUE, repr |-> "stack backtrace: 0: notion::main"]
\* a failure::Fail value: its Debug representation and its optional backtrace
Failures == {[debug |-> d, backtrace |-> b] :
                d \in {"Oops", "Io(Os { code: 2 })"}, b \in {NoBacktrace, SomeBacktrace}}
NoFailure == [debug |-> "", backtrace |-> NoBacktrace]

\* term_size::dimensions(), the width only
NoDims == [some |-> FALSE, w |-> 0]
TermDims == {NoDims} \cup {[some |-> TRUE, w |-> w] : w \in 0..MaxTermWidth}

\* a &str, as far as str::len sees it: its characters and its UTF-8 bytes
Details == {d \in [chars : 0..MaxDetailsChars, bytes : 0..MaxDetailsBytes] :
                d.chars <= d.bytes /\ d.bytes <= 4 * d.chars}
NoDetails == [chars |-> 0, bytes |-> 0]

NoArg == [cx |-> "none", msg |-> "", err |-> NoFailure, dims |-> NoDims,
          details |-> NoDetails]

----------------------------------------------------------------------------
(* Error reporting *)

\* display_error_prefix for every context writes "error:" (a mutation)
DisplayErrorPrefixSame(cx) == Eprint(<<Styled("error:", {"red", "bold"}), Plain(" ")>>)

\* what display_error_prefix(cx) writes
DisplayErrorPrefixOut(cx) ==
    IF cx = "Notion"
    THEN Eprint(<<Styled("error:", {"red", "bold"}), Plain(" ")>>)
    ELSE Eprint(<<Styled("Notion error:", {"red", "bold"}), Plain(" ")>>)

\* display_error with the prefix written after the message (a mutation)
DisplayErrorOutSwapped(cx, m) == Eprintln(<<Plain(m)>>) \o DisplayErrorPrefixOut(cx)

\* what display_error(cx, err) writes; m is err's Display text
DisplayErrorOut(cx, m) == DisplayErrorPrefixOut(cx) \o Eprintln(<<Plain(m)>>)

\* the else branch of display_unknown_error
UserMessage ==
    Eprintln(<<Plain("Notion is still a pre-alpha project, so we expect to run into some bugs,")>>)
    \o Eprintln(<<Plain("but we'd love to hear about them so we can fix them!")>>)
    \o Eprintln(<<>>)
    \o Eprintln(<<Plain("Please feel free to reach out to us at "),
                  Styled("@notionjs", {"cyan", "bold"}),
                  Plain(" on Twitter or file an issue at:")>>)
    \o Eprintln(<<>>)
    \o Eprintln(<<Plain("    "),
                  Styled("https://github.com/notion-cli/notion/issues", {"bold"})>>)
    \o Eprintln(<<>>)

\* NOTION_DEV as the report just before took it, when there was one (a mutation:
\* the flag is kept from one call to the next)
DevModeCached(e) ==
    IF prevDev = "none" THEN IsOk(EnvVar(e, "NOTION_DEV")) ELSE prevDev = "ok"

\* env::var("NOTION_DEV").is_ok()
DevMode(e) == IsOk(EnvVar(e, "NOTION_DEV"))

BacktraceHint == Eprintln(<<Plain("Run with NOTION_DEV=1 and RUST_BACKTRACE=1 for a backtrace.")>>)

\* whether the details line of the then branch is among the fragments
HasDetails(frags) == \E i \in 1..Len(frags) : frags[i].text = "details:"

\* the then branch of display_unknown_error
DevMessage(err, e) ==
    Eprintln(<<Styled("details:", {"yellow", "bold"}), Plain(" "), Plain(err.debug)>>)
    \o Eprintln(<<>>)
    \o (IF err.backtrace.some /\ IsOk(EnvVar(e, "RUST_BACKTRACE"))
        THEN Eprintln(<<Plain(err.backtrace.repr)>>)
        ELSE BacktraceHint)

\* display_unknown_error that adds the details to the user message (a mutation)
DisplayUnknownErrorOutLeaky(cx, err, e) ==
    DisplayErrorPrefixOut(cx)
    \o Eprintln(<<Plain("an internal error occurred")>>)
    \o Eprintln(<<>>)
    \o (IF DevMode(e)
        THEN DevMessage(err, e)
        ELSE Eprintln(<<Plain(err.debug)>>) \o UserMessage)

\* what display_unknown_error(cx, err) writes in environment e
DisplayUnknownErrorOut(cx, err, e) ==
    DisplayErrorPrefixOut(cx)
    \o Eprintln(<<Plain("an internal error occurred")>>)
    \o Eprintln(<<>>)
    \o (IF DevMode(e) THEN DevMessage(err, e) ELSE UserMessage)

\* the environment variables display_unknown_error reads (&& short-circuits)
DisplayUnknownErrorReads(err, e) ==
    {"NOTION_DEV"} \cup
    (IF DevMode(e) /\ err.backtrace.some THEN {"RUST_BACKTRACE"} ELSE {})

\* display_error consults NOTION_DEV (a mutation)
DisplayErrorReadsDev == {"NOTION_DEV"}

\* display_error and display_error_prefix read no environment variable
DisplayErrorReads == {}

----------------------------------------------------------------------------
(* Progress bars *)

MAX_WIDTH == 10         \* Action::MAX_WIDTH
DefaultWidth == 80      \* unwrap_or(80)
BarCap == 40            \* min(available_width, 40)
SteadyTickMs == 20      \* enable_steady_tick(20)

\* usize arithmetic is modulo 2^64; TLC's integers stop at 2^31, so the model
\* keeps a modulus of 2^30, far above every width it handles
UsizeModulus == 2^30

WrappingSub(a, b) == (a - b) % UsizeModulus

Min(a, b) == IF a <= b THEN a ELSE b

\* the characters of a string, counted in place of its bytes (a mutation)
StrChars(d) == d.chars

\* str::len: the length in bytes
StrLen(d) == d.bytes

RECURSIVE SubChain(_, _)
\* acc - subs[1] - subs[2] - ... in usize, left to right: the wrapped value and
\* whether one of the subtractions overflowed
SubChain(acc, subs) ==
    IF subs = <<>> THEN [overflow |-> FALSE, val |-> acc]
    ELSE LET rest == SubChain(WrappingSub(acc, Head(subs)), Tail(subs))
         IN  [overflow |-> (acc < Head(subs)) \/ rest.overflow, val |-> rest.val]

DisplayWidth(dims) == IF dims.some THEN dims.w ELSE DefaultWidth

MsgWidth(d) == MAX_WIDTH + 1 + StrLen(d)

AvailableWidth(dims, d) == SubChain(DisplayWidth(dims), <<2, MsgWidth(d), 2, 2, 1, 3, 1>>)

\* the bar takes all the available width (a mutation)
BarWidthUncapped(available) == available

BarWidth(available) == Min(available, BarCap)

RECURSIVE Spaces(_)
Spaces(n) == IF n <= 0 THEN "" ELSE " " \o Spaces(n - 1)

\* format!("{: >width$}", s)
PadLeft(s, width) == Spaces(width - Len(s)) \o s

\* impl Display for Action
ActionString(action) == IF action = "Fetching" THEN "Fetching" ELSE ""

NoBar == [live |-> FALSE, action |-> Plain(""), details |-> NoDetails, barWidth |-> 0,
          template |-> "", progressChars |-> ""]

\* the ProgressBar progress_bar returns once available_width is computed
ProgressBarHandle(action, d, available) ==
    [live |-> TRUE,
     action |-> Styled(PadLeft(ActionString(action), MAX_WIDTH), {"green", "bold"}),
     details |-> d,
     barWidth |-> BarWidth(available),
     template |-> "{msg}  [{bar:" \o ToString(BarWidth(available))
                    \o ".cyan/blue}] {percent:>3}%",
     progressChars |-> "=> "]

----------------------------------------------------------------------------
(* Spinners *)

NoSpinner == [live |-> FALSE, message |-> "", template |-> "", steadyTick |-> 0,
              frame |-> 0, finished |-> FALSE]

\* ProgressBar::new_spinner()
NewSpinner == [live |-> TRUE, message |-> "", template |-> "{spinner} {msg}",
               steadyTick |-> 0, frame |-> 0, finished |-> FALSE]

\* progress_spinner without enable_steady_tick (a mutation)
ProgressSpinnerHandleNoTick(message) ==
    [NewSpinner EXCEPT !.message = message, !.template = "{spinner} {msg}"]

\* the ProgressBar progress_spinner returns
ProgressSpinnerHandle(message) ==
    [NewSpinner EXCEPT !.message = message,
                       !.template = "{spinner} {msg}",
                       !.steadyTick = SteadyTickMs]

----------------------------------------------------------------------------
(* The state machine *)

Init ==
    /\ env \in [EnvNames -> EnvValues \cup {Unset}]
    /\ pc = "idle"
    /\ op = "none"
    /\ arg = NoArg
    /\ written = <<>>
    /\ envReads = {}
    /\ bar = NoBar
    /\ spinner = NoSpinner
    /\ prevDev = "none"

\* the environment changes between two calls
SetEnv ==
    /\ pc = "idle"
    /\ \E n \in EnvNames, v \in EnvValues : env' = [env EXCEPT ![n] = v]
    /\ UNCHANGED <<pc, op, arg, written, envReads, bar, spinner, prevDev>>

UnsetEnv ==
    /\ pc = "idle"
    /\ \E n \in EnvNames : env[n].set /\ env' = [env EXCEPT ![n] = Unset]
    /\ UNCHANGED <<pc, op, arg, written, envReads, bar, spinner, prevDev>>

DisplayErrorPrefix ==
    /\ pc = "idle"
    /\ \E cx \in Contexts :
        /\ arg' = [NoArg EXCEPT !.cx = cx]
        /\ written' = DisplayErrorPrefixOut(cx)
    /\ envReads' = DisplayErrorReads
    /\ op' = "display_error_prefix"
    /\ pc' = "returned"
    /\ prevDev' = "none"
    /\ UNCHANGED <<env, bar, spinner>>

DisplayError ==
    /\ pc = "idle"
    /\ \E cx \in Contexts, m \in Messages :
        /\ arg' = [NoArg EXCEPT !.cx = cx, !.msg = m]
        /\ written' = DisplayErrorOut(cx, m)
    /\ envReads' = DisplayErrorReads
    /\ op' = "display_error"
    /\ pc' = "returned"
    /\ prevDev' = "none"
    /\ UNCHANGED <<env, bar, spinner>>

DisplayUnknownError ==
    /\ pc = "idle"
    /\ \E cx \in Contexts, err \in Failures :
        /\ arg' = [NoArg EXCEPT !.cx = cx, !.err = err]
        /\ written' = DisplayUnknownErrorOut(cx, err, env)
        /\ envReads' = DisplayUnknownErrorReads(err, env)
    /\ op' = "display_unknown_error"
    /\ pc' = "returned"
    /\ UNCHANGED <<env, bar, spinner, prevDev>>

\* progress_bar; checks is whether the build checks arithmetic overflow (a debug
\* build panics on it, a release build wraps)
ProgressBar ==
    /\ pc = "idle"
    /\ \E dims \in TermDims, d \in Details, checks \in BOOLEAN :
        LET available == AvailableWidth(dims, d) IN
        /\ arg' = [NoArg EXCEPT !.dims = dims, !.details = d]
        /\ IF available.overflow /\ checks
           THEN pc' = "panicked" /\ bar' = NoBar
           ELSE pc' = "returned" /\ bar' = ProgressBarHandle("Fetching", d, available.val)
    /\ op' = "progress_bar"
    /\ written' = <<>>
    /\ envReads' = {}
    /\ prevDev' = "none"
    /\ UNCHANGED <<env, spinner>>

ProgressSpinner ==
    /\ pc = "idle"
    /\ \E m \in Messages :
        /\ arg' = [NoArg EXCEPT !.msg = m]
        /\ spinner' = ProgressSpinnerHandle(m)
    /\ op' = "progress_spinner"
    /\ pc' = "returned"
    /\ written' = <<>>
    /\ envReads' = {}
    /\ prevDev' = "none"
    /\ UNCHANGED <<env, bar>>

\* 20 ms have passed for a handle with a steady tick: the frame advances
SpinnerTick ==
    /\ spinner.live /\ ~spinner.finished /\ spinner.steadyTick > 0
    /\ spinner' = [spinner EXCEPT !.frame = (spinner.frame + 1) % SpinnerFrames]
    /\ UNCHANGED <<env, pc, op, arg, written, envReads, bar, prevDev>>

\* the caller finishes the spinner
Finish ==
    /\ spinner.live /\ ~spinner.finished
    /\ spinner' = [spinner EXCEPT !.finished = TRUE]
    /\ UNCHANGED <<env, pc, op, arg, written, envReads, bar, prevDev>>

\* the caller drops the handle it was given
DropHandle ==
    /\ pc = "returned"
    /\ op \in {"progress_bar", "progress_spinner"}
    /\ pc' = "idle" /\ op' = "none" /\ arg' = NoArg
    /\ bar' = NoBar /\ spinner' = NoSpinner
    /\ UNCHANGED <<env, written, envReads, prevDev>>

\* the caller goes on after a report
Return ==
    /\ pc = "returned"
    /\ op \in {"display_error_prefix", "display_error", "display_unknown_error"}
    /\ pc' = "idle" /\ op' = "none" /\ arg' = NoArg
    /\ written' = <<>> /\ envReads' = {}
    /\ prevDev' = IF op # "display_unknown_error" THEN "none"
                  ELSE IF HasDetails(written) THEN "ok" ELSE "err"
    /\ UNCHANGED <<env, bar, spinner>>

Next ==
    \/ SetEnv
    \/ UnsetEnv
    \/ DisplayErrorPrefix
    \/ DisplayError
    \/ DisplayUnknownError
    \/ ProgressBar
    \/ ProgressSpinner
    \/ SpinnerTick
    \/ Finish
    \/ DropHandle
    \/ Return

Spec == Init /\ [][Next]_vars

\* the spinner thread gets to run: a live, unfinished spinner is ticked again
SpecTick == Spec /\ WF_vars(SpinnerTick)

----------------------------------------------------------------------------
(* Properties *)

ReportOps == {"display_error_prefix", "display_error", "display_unknown_error"}

Contains(s, t) == \E i \in 1..(Len(s) - Len(t) + 1) : SubSeq(s, i, i + Len(t) - 1) = t

HasFragment(frags, t) == \E i \in 1..Len(frags) : frags[i].text = t

\* W - 2 - msgWidth - 2 - 2 - 1 - 3 - 1 over the integers, for the call in arg
NaturalAvailable ==
    (IF arg.dims.some THEN arg.dims.w ELSE 80)
        - 2 - (10 + 1 + arg.details.bytes) - 2 - 2 - 1 - 3 - 1

BarReturned == op = "progress_bar" /\ pc = "returned"

\* C1: every bar width progress_bar computes and puts into the template is
\* between 0 and 40, whatever the terminal width and the details.
C1_BarWidthWithinCap ==
    BarReturned =>
        /\ 0 <= bar.barWidth /\ bar.barWidth <= 40
        /\ bar.template = "{msg}  [{bar:" \o ToString(bar.barWidth)
                            \o ".cyan/blue}] {percent:>3}%"

\* a bar on a real terminal with a width strictly between the two ends
C1_Witness ==
    BarReturned /\ arg.dims.some /\ bar.barWidth > 0 /\ bar.barWidth < 40

\* C2: when the available width would be negative, progress_bar returns a
\* handle whose bar width is 0: it neither panics nor wraps.
C2_SaturatesAtZero ==
    (op = "progress_bar" /\ NaturalAvailable < 0) =>
        (pc = "returned" /\ bar.live /\ bar.barWidth = 0)

\* C3: when the available width is not negative, progress_bar returns and the
\* bar width is min(W - 2 - msgWidth - 2 - 2 - 1 - 3 - 1, 40), msgWidth being
\* 10 + 1 + the byte length of details and W the terminal width or 80; with
\* no terminal and a details string of 7 bytes it is 40.
C3_BarWidthFormula ==
    (op = "progress_bar" /\ NaturalAvailable >= 0) =>
        /\ BarReturned
        /\ bar.barWidth = (IF NaturalAvailable <= 40 THEN NaturalAvailable ELSE 40)
        /\ (~arg.dims.some /\ arg.details.bytes = 7) =>
                (NaturalAvailable = 51 /\ bar.barWidth = 40)

\* no terminal (80 columns) and the details "v1.23.4"
C3_Witness ==
    /\ BarReturned /\ ~arg.dims.some
    /\ arg.details = [chars |-> 7, bytes |-> 7]
    /\ bar.barWidth = 40

\* C4: display_error in the Notion context writes "error: ", the message and
\* one newline, and nothing else; the prefix comes first and is followed by
\* one space.
C4_ErrorLine ==
    (pc = "returned" /\ op = "display_error" /\ arg.cx = "Notion") =>
        /\ Text(written) = "error: " \o arg.msg \o "\n"
        /\ written[1].text = "error:"
        /\ written[2].text = " "
        /\ Len(written) = 4

C4_Witness ==
    /\ pc = "returned" /\ op = "display_error"
    /\ arg.cx = "Notion" /\ arg.msg = "x"
    /\ Len(written) > 0

\* C5: the prefix depends on the context alone; every report in the Shim
\* context starts with "Notion error:", which differs from "error:", is
\* longer and names Notion, and every report in the Notion context starts
\* with "error:".
C5_ShimPrefix ==
    (pc = "returned" /\ op \in ReportOps) =>
        /\ Len(written) >= 2
        /\ written[2] = Plain(" ")
        /\ written[1].style = {"red", "bold"}
        /\ arg.cx = "Notion" => written[1].text = "error:"
        /\ arg.cx = "Shim" =>
            /\ written[1].text = "Notion error:"
            /\ written[1].text # "error:"
            /\ Len(written[1].text) > Len("error:")
            /\ Contains(written[1].text, "Notion")
            /\ ~Contains("error:", "Notion")

C5_Witness ==
    pc = "returned" /\ op = "display_unknown_error" /\ arg.cx = "Shim" /\ Len(written) > 2

\* C6: with NOTION_DEV unset display_unknown_error writes the prefix, "an
\* internal error occurred", a blank line and the fixed three paragraphs,
\* whatever the failure, its backtrace and RUST_BACKTRACE; it writes neither
\* the failure's Debug text nor a backtrace.
C6_UserMessageFixed ==
    (pc = "returned" /\ op = "display_unknown_error" /\ ~env["NOTION_DEV"].set) =>
        /\ Text(written) =
            (IF arg.cx = "Shim" THEN "Notion error: " ELSE "error: ")
            \o "an internal error occurred\n"
            \o "\n"
            \o "Notion is still a pre-alpha project, so we expect to run into some bugs,\n"
            \o "but we'd love to hear about them so we can fix them!\n"
            \o "\n"
            \o "Please feel free to reach out to us at @notionjs on Twitter or file an issue at:\n"
            \o "\n"
            \o "    https://github.com/notion-cli/notion/issues\n"
            \o "\n"
        /\ ~HasFragment(written, arg.err.debug)
        /\ ~HasFragment(written, SomeBacktrace.repr)
        /\ ~HasFragment(written, "details:")

\* a failure with a backtrace, RUST_BACKTRACE set, NOTION_DEV unset
C6_Witness ==
    /\ pc = "returned" /\ op = "display_unknown_error"
    /\ ~env["NOTION_DEV"].set /\ env["RUST_BACKTRACE"].set
    /\ arg.err.backtrace.some
    /\ Len(written) > 0

\* C7: with NOTION_DEV set display_unknown_error writes the details line, a
\* blank line and then the backtrace if the failure has one and
\* RUST_BACKTRACE is set, the hint otherwise; never the user message.
C7_DevBranch ==
    (pc = "returned" /\ op = "display_unknown_error" /\ env["NOTION_DEV"].set) =>
        Text(written) =
            (IF arg.cx = "Shim" THEN "Notion error: " ELSE "error: ")
            \o "an internal error occurred\n"
            \o "\n"
            \o "details: " \o arg.err.debug \o "\n"
            \o "\n"
            \o (IF arg.err.backtrace.some /\ env["RUST_BACKTRACE"].set
                THEN arg.err.backtrace.repr \o "\n"
                ELSE "Run with NOTION_DEV=1 and RUST_BACKTRACE=1 for a backtrace.\n")

\* C8: only set or unset matters: display_unknown_error takes the developer
\* branch exactly when NOTION_DEV is set, whatever its value, and in that
\* branch, for a failure with a backtrace, writes the backtrace exactly when
\* RUST_BACKTRACE is set, whatever its value.
C8_PresenceOnly ==
    (pc = "returned" /\ op = "display_unknown_error") =>
        /\ HasFragment(written, "details:") <=> env["NOTION_DEV"].set
        /\ (HasFragment(written, "details:") /\ arg.err.backtrace.some) =>
            (HasFragment(written, arg.err.backtrace.repr) <=> env["RUST_BACKTRACE"].set)

\* C9: the branches a display_unknown_error call takes are those of the
\* environment at the time of the call, whatever earlier calls saw, and it
\* reads NOTION_DEV on every call; the other functions read no variable.
C9_FlagsReadPerCall ==
    [][(pc = "idle" /\ pc' # "idle") =>
        /\ op' = "display_unknown_error" =>
            /\ "NOTION_DEV" \in envReads'
            /\ HasFragment(written', "details:") <=> IsOk(EnvVar(env, "NOTION_DEV"))
            /\ HasFragment(written', arg'.err.debug) <=> IsOk(EnvVar(env, "NOTION_DEV"))
            /\ HasFragment(written', SomeBacktrace.repr) <=>
                /\ IsOk(EnvVar(env, "NOTION_DEV"))
                /\ arg'.err.backtrace.some
                /\ IsOk(EnvVar(env, "RUST_BACKTRACE"))
            /\ env' = env
        /\ op' # "display_unknown_error" => envReads' = {}
      ]_vars

\* a call in the developer branch right after a call that took the other one
C9_Witness ==
    /\ pc = "returned" /\ op = "display_unknown_error"
    /\ prevDev = "err" /\ HasFragment(written, "details:")
    /\ "RUST_BACKTRACE" \in envReads

\* C10: the handle progress_spinner returns has the message, the template
\* "{spinner} {msg}" and a steady tick of 20 ms; while it is not finished a
\* tick is possible and advances the frame, and the spinner thread makes it
\* happen; once finished, the handle does not change until it is dropped.
C10_SpinnerLifecycle ==
    /\ [](op = "progress_spinner" =>
            /\ pc = "returned" /\ spinner.live
            /\ spinner.message = arg.msg
            /\ spinner.template = "{spinner} {msg}"
            /\ spinner.steadyTick = 20
            /\ ~spinner.finished => ENABLED SpinnerTick)
    /\ [][SpinnerTick => spinner'.frame # spinner.frame]_vars
    /\ [][spinner.finished => (spinner' = spinner \/ ~spinner'.live)]_vars
    /\ \A f \in 0..(SpinnerFrames - 1) :
        [](spinner.live /\ ~spinner.finished /\ spinner.frame = f
            => <>(~spinner.live \/ spinner.finished \/ spinner.frame # f))

\* a spinner that was ticked twice and then finished
C10_Witness ==
    /\ op = "progress_spinner" /\ spinner.live
    /\ spinner.finished /\ spinner.frame = 2

====
